---- MODULE Spec2Model ----
(***************************************************************************)
(* A model of the cross-platform matching and arbitrage-scoring engine of  *)
(* arbitrage_bot: src/src/arbitrage/calculator.py (ArbitrageCalculator)    *)
(* and src/src/matching/semantic_matcher.py (SemanticMatcher).             *)
(*                                                                         *)
(* Numbers.  The program computes with Python floats.  The model computes  *)
(* with exact fixed-point numbers: a price, a cost, a profit or a          *)
(* percentage x is the integer 1000 * x (0.95 is 950, a profit of 2.0 % is *)
(* 2000).  Liquidity is counted in whole currency units.  Binary rounding  *)
(* of the float operations is outside the model.                           *)
(*                                                                         *)
(* Optional values.  Python's None is the empty tuple << >> and a present  *)
(* value x is the one-element tuple << x >>.                               *)
(***************************************************************************)
EXTENDS Integers, Sequences, FiniteSets, TLC

VARIABLES
    calculator,   \* the ArbitrageCalculator object: its two thresholds
    matcher,      \* the SemanticMatcher object: min_confidence, use_semantic, embedder
    call,         \* the call under way: function name and arguments
    ret,          \* what the call returned (None before it has returned)
    pc,           \* "ready": the call has not run yet; "done": it has returned
    encode_calls, \* how many times self.embedder.encode has been invoked
    warnings,     \* how many "Semantic scoring failed" warnings have been logged
    calls,        \* how many calls the matcher has served since construction
    cache         \* the files of the MarketCache: file name |-> data

vars == <<calculator, matcher, call, ret, pc, encode_calls, warnings, calls, cache>>

\* a cache directory without files
NoFiles == << >>

----------------------------------------------------------------------------
(* Optional values *)

None == << >>

Some(x) == << x >>

IsNone(o) == o = None

Get(o) == o[1]

(* Python truthiness of an Optional[float]: None and 0 are falsy. *)
Truthy(o) == o # None /\ Get(o) # 0

----------------------------------------------------------------------------
(* Fixed-point constants of calculator.py *)

One == 1000

LowSum == 950

HighSum == 1050

Hundred == 100

DefaultMinProfitPct == 2000

DefaultMinLiquidity == 100

----------------------------------------------------------------------------
(* Input sets *)

\* yes/no quotes: negative, zero, 1.0, and values whose sums hit 0.94, 0.95,
\* 1.05, 1.06 and whose hedge costs hit 0.98 and 0.99.
Prices == {-10, 0, 450, 490, 500, 510, 550, 1000}

\* unset, zero, and values below, at and above the minimum liquidities
Liquidities == {None, Some(0), Some(50), Some(100)}

MinProfitPcts == {1000, DefaultMinProfitPct}

MinLiquidities == {50, DefaultMinLiquidity}

Confidences == {<<4, 5>>, <<1, 1>>}

CalcMarketsA ==
    [platform : {"polymarket"}, market_id : {"a"}, question : {<<"e">>},
     yes_price : Prices, no_price : Prices, liquidity : Liquidities]

CalcMarketsB ==
    [platform : {"kalshi"}, market_id : {"b"}, question : {<<"e">>},
     yes_price : Prices, no_price : Prices, liquidity : Liquidities]

----------------------------------------------------------------------------
(* ArbitrageCalculator *)

ArbitrageCalculator(min_profit_pct, min_liquidity) ==
    [min_profit_pct |-> min_profit_pct, min_liquidity |-> min_liquidity]

\* variant: the second market reference is filled from the first
ArbitrageResult_sameMarket(market_a, market_b, profit_pct, strategy, cost, match_confidence) ==
    [market_a |-> market_a, market_b |-> market_a, profit_pct |-> profit_pct,
     strategy |-> strategy, cost |-> cost, match_confidence |-> match_confidence]

ArbitrageResult(market_a, market_b, profit_pct, strategy, cost, match_confidence) ==
    [market_a |-> market_a, market_b |-> market_b, profit_pct |-> profit_pct,
     strategy |-> strategy, cost |-> cost, match_confidence |-> match_confidence]

\* the list of (strategy, cost) pairs, in evaluation order
Scenarios(market_a, market_b) ==
    << <<"yes_a_no_b", market_a.yes_price + market_b.no_price>>,
       <<"no_a_yes_b", market_a.no_price + market_b.yes_price>> >>

\* variant: the profit is taken relative to the cost
ProfitPct_ofCost(cost) == ((One - cost) * Hundred * One) \div cost

ProfitPct(cost) == (One - cost) * Hundred

\* variant: a later scenario replaces the best on a tie (>= for >)
RECURSIVE BestScenario_lastWins(_, _, _)
BestScenario_lastWins(scenarios, i, best) ==
    IF i > Len(scenarios) THEN best
    ELSE LET cost       == scenarios[i][2]
             profit_pct == ProfitPct(cost)
         IN  IF IsNone(best) \/ profit_pct >= Get(best)[1]
             THEN BestScenario_lastWins(scenarios, i + 1,
                                        Some(<<profit_pct, scenarios[i]>>))
             ELSE BestScenario_lastWins(scenarios, i + 1, best)

\* the loop over the scenarios: best is None (best_profit = -inf) or
\* Some(<<best_profit, <<strategy, cost>> >>)
RECURSIVE BestScenario(_, _, _)
BestScenario(scenarios, i, best) ==
    IF i > Len(scenarios) THEN best
    ELSE LET cost       == scenarios[i][2]
             profit_pct == ProfitPct(cost)
         IN  IF IsNone(best) \/ profit_pct > Get(best)[1]
             THEN BestScenario(scenarios, i + 1, Some(<<profit_pct, scenarios[i]>>))
             ELSE BestScenario(scenarios, i + 1, best)

\* variant: a zero price is accepted (< for <=)
PricesInvalid_zeroOk(m) == m.yes_price < 0 \/ m.no_price < 0

PricesInvalid(m) == m.yes_price <= 0 \/ m.no_price <= 0

\* variant: the band is open, its two ends are rejected
SumOutOfBand_open(m) ==
    LET sum == m.yes_price + m.no_price
    IN  sum <= LowSum \/ sum >= HighSum

SumOutOfBand(m) ==
    LET sum == m.yes_price + m.no_price
    IN  sum < LowSum \/ sum > HighSum

\* variant: the minimum profit is exclusive (> for >=)
MeetsMinProfit_strict(self, best_profit) == best_profit > self.min_profit_pct

MeetsMinProfit(self, best_profit) == best_profit >= self.min_profit_pct

\* variant: an unset liquidity counts as zero
LiquidityTooLow_noneIsZero(self, m) ==
    (IF m.liquidity = None THEN 0 ELSE Get(m.liquidity)) < self.min_liquidity

LiquidityTooLow(self, m) ==
    Truthy(m.liquidity) /\ Get(m.liquidity) < self.min_liquidity

calculate(self, market_a, market_b, match_confidence) ==
    IF PricesInvalid(market_a) THEN None
    ELSE IF PricesInvalid(market_b) THEN None
    ELSE IF SumOutOfBand(market_a) \/ SumOutOfBand(market_b) THEN None
    ELSE IF LiquidityTooLow(self, market_a) THEN None
    ELSE IF LiquidityTooLow(self, market_b) THEN None
    ELSE LET best        == BestScenario(Scenarios(market_a, market_b), 1, None)
             best_profit == Get(best)[1]
             strategy    == Get(best)[2][1]
             cost        == Get(best)[2][2]
         IN  IF MeetsMinProfit(self, best_profit)
             THEN Some(ArbitrageResult(market_a, market_b, best_profit,
                                       strategy, cost, match_confidence))
             ELSE None

\* the decimal digits of a natural number
RECURSIVE decimal(_)
decimal(n) ==
    IF n < 10 THEN SubSeq("0123456789", n + 1, n + 1)
    ELSE decimal(n \div 10) \o SubSeq("0123456789", (n % 10) + 1, (n % 10) + 1)

\* f"{price:.3f}" for a price that is not negative
format_3f(price) ==
    decimal(price \div One) \o "."
        \o decimal((price % One) \div 100)
        \o decimal((price % 100) \div 10)
        \o decimal(price % 10)

get_strategy_description(self, result) ==
    IF result.strategy = "yes_a_no_b"
    THEN [action_a |-> "Buy Yes on " \o result.market_a.platform \o " ("
                          \o format_3f(result.market_a.yes_price) \o ")",
          action_b |-> "Buy No on " \o result.market_b.platform \o " ("
                          \o format_3f(result.market_b.no_price) \o ")",
          explanation |-> "If event happens, profit from A. If not, profit from B."]
    ELSE [action_a |-> "Buy No on " \o result.market_a.platform \o " ("
                          \o format_3f(result.market_a.no_price) \o ")",
          action_b |-> "Buy Yes on " \o result.market_b.platform \o " ("
                          \o format_3f(result.market_b.yes_price) \o ")",
          explanation |-> "If event happens, profit from B. If not, profit from A."]

----------------------------------------------------------------------------
(* Text.  A text is a string, that is a sequence of characters: Len, SubSeq *)
(* and \o apply to it.  The character classes are those of Python's re on   *)
(* the characters the model uses.                                           *)

Char(s, i) == SubSeq(s, i, i)

Rest(s) == SubSeq(s, 2, Len(s))

CharSet(s) == {Char(s, i) : i \in 1..Len(s)}

IndexIn(c, s) == CHOOSE i \in 1..Len(s) : Char(s, i) = c

LowerLetters == "abcdefghijklmnopqrstuvwxyz"

UpperLetters == "ABCDEFGHIJKLMNOPQRSTUVWXYZ"

DigitChars == "0123456789"

\* the characters of the model in code-point order (the order of str's <)
CodeOrder ==
    " $-.0123456789?ABCDEFGHIJKLMNOPQRSTUVWXYZ_abcdefghijklmnopqrstuvwxyz"

LowerSet == CharSet(LowerLetters)

UpperSet == CharSet(UpperLetters)

DigitSet == CharSet(DigitChars)

\* \w
WordChars == LowerSet \cup UpperSet \cup DigitSet \cup {"_"}

\* \s
SpaceChars == {" "}

ToLower == [c \in UpperSet |-> Char(LowerLetters, IndexIn(c, UpperLetters))]

Ord == [c \in CharSet(CodeOrder) |-> IndexIn(c, CodeOrder)]

\* str.lower()
RECURSIVE lower(_)
lower(text) ==
    IF text = "" THEN ""
    ELSE LET c == Char(text, 1)
         IN  (IF c \in UpperSet THEN ToLower[c] ELSE c) \o lower(Rest(text))

RECURSIVE lstrip(_)
lstrip(text) ==
    IF text # "" /\ Char(text, 1) \in SpaceChars THEN lstrip(Rest(text)) ELSE text

RECURSIVE rstrip(_)
rstrip(text) ==
    IF text # "" /\ Char(text, Len(text)) \in SpaceChars
    THEN rstrip(SubSeq(text, 1, Len(text) - 1))
    ELSE text

\* str.strip()
strip(text) == rstrip(lstrip(text))

\* str < str: lexicographic on code points
RECURSIVE StrLess(_, _)
StrLess(s, t) ==
    IF t = "" THEN FALSE
    ELSE IF s = "" THEN TRUE
    ELSE IF Char(s, 1) = Char(t, 1) THEN StrLess(Rest(s), Rest(t))
    ELSE Ord[Char(s, 1)] < Ord[Char(t, 1)]

\* str.split(): the maximal runs of non-whitespace characters
RECURSIVE split_from(_, _, _)
split_from(text, i, word) ==
    IF i > Len(text) THEN (IF word = "" THEN << >> ELSE <<word>>)
    ELSE IF Char(text, i) \in SpaceChars
         THEN (IF word = "" THEN << >> ELSE <<word>>) \o split_from(text, i + 1, "")
         ELSE split_from(text, i + 1, word \o Char(text, i))

split(text) == split_from(text, 1, "")

\* ' '.join(words)
RECURSIVE join(_)
join(words) ==
    IF words = << >> THEN ""
    ELSE IF Len(words) = 1 THEN words[1]
    ELSE words[1] \o " " \o join(Tail(words))

\* the regular expression \b at position i: between text[i-1] and text[i]
IsWordAt(text, k) == k >= 1 /\ k <= Len(text) /\ Char(text, k) \in WordChars

Boundary(text, i) == IsWordAt(text, i - 1) # IsWordAt(text, i)

----------------------------------------------------------------------------
(* TextNormalizer (normalizer.py) *)

name_replacements ==
    << <<"trump",    <<"donald trump", "djt", "d. trump", "donald j. trump",
                       "donald j trump">> >>,
       <<"biden",    <<"joe biden", "joseph biden", "j. biden">> >>,
       <<"harris",   <<"kamala harris", "k. harris", "kamala d. harris">> >>,
       <<"desantis", <<"ron desantis", "ronald desantis", "r. desantis">> >>,
       <<"us",       <<"united states", "usa", "u.s.", "u.s.a.">> >>,
       <<"uk",       <<"united kingdom", "u.k.", "great britain", "britain">> >>,
       <<"fed",      <<"federal reserve", "federal reserve bank">> >>,
       <<"gdp",      <<"gross domestic product">> >> >>

\* reverse_map.items() in insertion order: the pairs <<variant, standard>>
RECURSIVE reverse_items(_)
reverse_items(k) ==
    IF k > Len(name_replacements) THEN << >>
    ELSE LET standard == name_replacements[k][1]
             variants == name_replacements[k][2]
         IN  [i \in 1..Len(variants) |-> <<lower(variants[i]), standard>>]
             \o reverse_items(k + 1)

reverse_map == reverse_items(1)

stopwords ==
    {"the", "a", "an", "in", "on", "at", "to", "for", "of", "by", "with",
     "will", "be", "is", "are", "was", "were", "been", "being"}

\* re.sub(r'[^\w\s-]', ' ', text)
RECURSIVE sub_punctuation(_)
sub_punctuation(text) ==
    IF text = "" THEN ""
    ELSE LET c == Char(text, 1)
         IN  (IF c \in WordChars \/ c \in SpaceChars \/ c = "-" THEN c ELSE " ")
             \o sub_punctuation(Rest(text))

\* a match of r'\b' + re.escape(variant) + r'\b' starting at position i
MatchesAt(text, i, variant) ==
    /\ i + Len(variant) - 1 <= Len(text)
    /\ SubSeq(text, i, i + Len(variant) - 1) = variant
    /\ Boundary(text, i)
    /\ Boundary(text, i + Len(variant))

\* re.sub(r'\b' + re.escape(variant) + r'\b', standard, text), from position i:
\* the leftmost non-overlapping matches, found in the text as it was
RECURSIVE sub_variant(_, _, _, _)
sub_variant(text, i, variant, standard) ==
    IF i > Len(text) THEN ""
    ELSE IF MatchesAt(text, i, variant)
         THEN standard \o sub_variant(text, i + Len(variant), variant, standard)
         ELSE Char(text, i) \o sub_variant(text, i + 1, variant, standard)

\* for variant, standard in self.reverse_map.items(): text = re.sub(...)
\* (a substitution in the empty text gives the empty text)
RECURSIVE replace_variants(_, _)
replace_variants(text, k) ==
    IF k > Len(reverse_map) \/ text = "" THEN text
    ELSE replace_variants(
             sub_variant(text, 1, reverse_map[k][1], reverse_map[k][2]), k + 1)

\* variant: every word of the stopword table is dropped, whatever its length
KeepWord_anyLength(w) == w \notin stopwords

KeepWord(w) == w \notin stopwords \/ Len(w) > 3

\* re.sub(r'\s+', ' ', text)
RECURSIVE collapse_spaces(_, _)
collapse_spaces(text, i) ==
    IF i > Len(text) THEN ""
    ELSE IF Char(text, i) \in SpaceChars
         THEN (IF i > 1 /\ Char(text, i - 1) \in SpaceChars THEN "" ELSE " ")
              \o collapse_spaces(text, i + 1)
         ELSE Char(text, i) \o collapse_spaces(text, i + 1)

\* the stop-word filter over text.split(), joined again
drop_stopwords(text) == join(SelectSeq(split(text), KeepWord))

normalize(text) ==
    strip(collapse_spaces(
        drop_stopwords(
            replace_variants(
                sub_punctuation(
                    strip(lower(text))), 1)), 1))

\* re.findall(r'\b(20\d{2})\b', text) from position i
YearAt(text, i) ==
    /\ i + 3 <= Len(text)
    /\ Char(text, i) = "2" /\ Char(text, i + 1) = "0"
    /\ Char(text, i + 2) \in DigitSet /\ Char(text, i + 3) \in DigitSet
    /\ Boundary(text, i) /\ Boundary(text, i + 4)

RECURSIVE find_years(_, _)
find_years(text, i) ==
    IF i > Len(text) THEN << >>
    ELSE IF YearAt(text, i)
         THEN <<SubSeq(text, i, i + 3)>> \o find_years(text, i + 4)
         ELSE find_years(text, i + 1)

\* the alternatives of month_pattern, in the order the pattern lists them
month_names ==
    <<"january", "february", "march", "april", "may", "june", "july", "august",
      "september", "october", "november", "december", "jan", "feb", "mar",
      "apr", "may", "jun", "jul", "aug", "sep", "sept", "oct", "nov", "dec">>

\* the alternatives of quarter_pattern (q[1-4] written out)
quarter_names ==
    <<"q1", "q2", "q3", "q4", "first quarter", "second quarter",
      "third quarter", "fourth quarter">>

\* the first alternative of r'\b(alt1|alt2|...)\b' that matches at position i,
\* or 0
FirstAlternativeAt(text, i, alternatives) ==
    IF \E k \in 1..Len(alternatives) : MatchesAt(text, i, alternatives[k])
    THEN CHOOSE k \in 1..Len(alternatives) :
            /\ MatchesAt(text, i, alternatives[k])
            /\ \A j \in 1..(k - 1) : ~MatchesAt(text, i, alternatives[j])
    ELSE 0

\* re.findall(r'\b(alt1|alt2|...)\b', text) from position i
RECURSIVE find_alternatives(_, _, _)
find_alternatives(text, i, alternatives) ==
    IF i > Len(text) THEN << >>
    ELSE LET k == FirstAlternativeAt(text, i, alternatives)
         IN  IF k = 0 THEN find_alternatives(text, i + 1, alternatives)
             ELSE <<alternatives[k]>>
                  \o find_alternatives(text, i + Len(alternatives[k]), alternatives)

\* variant: a quarter sets has_date as a year or a month does
extract_date_context_quartersCount(text) ==
    LET text_lower == lower(text)
        years      == find_years(text_lower, 1)
        months     == find_alternatives(text_lower, 1, month_names)
        quarters   == find_alternatives(text_lower, 1, quarter_names)
    IN  [years |-> years, months |-> months, quarters |-> quarters,
         has_date |-> Len(years) > 0 \/ Len(months) > 0 \/ Len(quarters) > 0]

extract_date_context(text) ==
    LET text_lower == lower(text)
        years      == find_years(text_lower, 1)
        months     == find_alternatives(text_lower, 1, month_names)
        quarters   == find_alternatives(text_lower, 1, quarter_names)
    IN  [years |-> years, months |-> months, quarters |-> quarters,
         has_date |-> Len(years) > 0 \/ Len(months) > 0]

----------------------------------------------------------------------------
(* Scores.  A fuzzy score, a semantic score, a cosine or a confidence is an *)
(* exact rational <<numerator, denominator>> in lowest terms, denominator   *)
(* positive, so that equal numbers are equal values.                        *)

Abs(n) == IF n < 0 THEN -n ELSE n

RECURSIVE GCD(_, _)
GCD(a, b) == IF b = 0 THEN a ELSE GCD(b, a % b)

Rat(n, d) == LET g == GCD(Abs(n), d) IN <<n \div g, d \div g>>

RatOf(n) == <<n, 1>>

RatLess(x, y) == x[1] * y[2] < y[1] * x[2]

RatLeq(x, y) == x[1] * y[2] <= y[1] * x[2]

RatAdd(x, y) == Rat(x[1] * y[2] + y[1] * x[2], x[2] * y[2])

RatMul(x, y) == Rat(x[1] * y[1], x[2] * y[2])

\* x / n for an integer n > 0
RatDivInt(x, n) == Rat(x[1], x[2] * n)

Max(a, b) == IF a >= b THEN a ELSE b

----------------------------------------------------------------------------
(* rapidfuzz.fuzz.token_sort_ratio, the library call of semantic_matcher.py *)
(* line 65: the words of each string sorted and joined by one space, then   *)
(* fuzz.ratio, the normalized Indel similarity 100 * 2 * LCS / (len + len). *)

RECURSIVE insert_sorted(_, _)
insert_sorted(w, words) ==
    IF words = << >> THEN <<w>>
    ELSE IF StrLess(w, words[1]) THEN <<w>> \o words
    ELSE <<words[1]>> \o insert_sorted(w, Tail(words))

RECURSIVE sorted(_)
sorted(words) ==
    IF words = << >> THEN << >>
    ELSE insert_sorted(words[1], sorted(Tail(words)))

\* one row of the longest-common-subsequence table: for the prefix of s that
\* ends with character c, the entries for the prefixes t[1..j], j = 0..Len(t);
\* cur holds the entries computed so far
RECURSIVE lcs_row(_, _, _, _)
lcs_row(prev, c, t, cur) ==
    LET j == Len(cur)
    IN  IF j > Len(t) THEN cur
        ELSE lcs_row(prev, c, t,
                     Append(cur, IF c = Char(t, j) THEN prev[j] + 1
                                 ELSE Max(prev[j + 1], cur[j])))

RECURSIVE lcs_rows(_, _, _, _)
lcs_rows(s, t, i, prev) ==
    IF i > Len(s) THEN prev[Len(t) + 1]
    ELSE lcs_rows(s, t, i + 1, lcs_row(prev, Char(s, i), t, <<0>>))

lcs_length(s, t) == lcs_rows(s, t, 1, [j \in 1..(Len(t) + 1) |-> 0])

ratio(s, t) ==
    IF Len(s) + Len(t) = 0 THEN RatOf(100)
    ELSE Rat(200 * lcs_length(s, t), Len(s) + Len(t))

token_sort_ratio(s1, s2) ==
    ratio(join(sorted(split(s1))), join(sorted(split(s2))))

----------------------------------------------------------------------------
(* SemanticMatcher (semantic_matcher.py) *)

MatchResult(market_a, market_b, confidence, fuzzy_score, semantic_score) ==
    [market_a |-> market_a, market_b |-> market_b, confidence |-> confidence,
     fuzzy_score |-> fuzzy_score, semantic_score |-> semantic_score]

\* variant: a failed load leaves use_semantic as it was passed
SemanticMatcher_keepsFlag(min_confidence, use_semantic, load_ok) ==
    [min_confidence |-> min_confidence,
     use_semantic   |-> use_semantic,
     embedder       |-> IF use_semantic /\ load_ok
                        THEN Some("all-MiniLM-L6-v2") ELSE None]

\* __init__: load_ok says whether the embedding model could be loaded
SemanticMatcher(min_confidence, use_semantic, load_ok) ==
    [min_confidence |-> min_confidence,
     use_semantic   |-> use_semantic /\ load_ok,
     embedder       |-> IF use_semantic /\ load_ok
                        THEN Some("all-MiniLM-L6-v2") ELSE None]

\* the part of _calculate_match that reads the two questions only (lines
\* 56-72): whether the normalized strings are identical, the fuzzy score of
\* the normalized strings, and whether the date contexts veto the pair
text_match(text_a, text_b) ==
    LET norm_a == normalize(text_a)
        norm_b == normalize(text_b)
        date_a == extract_date_context(text_a)
        date_b == extract_date_context(text_b)
    IN  [identical   |-> norm_a = norm_b,
         fuzzy_score |-> token_sort_ratio(norm_a, norm_b),
         vetoed      |-> /\ date_a.has_date /\ date_b.has_date
                         /\ date_a.years # date_b.years]

\* the markets the matching specification draws its two lists from
MatchMarket(platform, market_id, question) ==
    [platform |-> platform, market_id |-> market_id, question |-> question,
     yes_price |-> 450, no_price |-> 500, liquidity |-> None]

MatchPoolA ==
    {MatchMarket("polymarket", "p1", "Trump win 2024"),
     MatchMarket("polymarket", "p2", "Fed cut")}

MatchPoolB ==
    {MatchMarket("kalshi", "k1", "DJT win 2024"),
     MatchMarket("kalshi", "k2", "trump wins 2024"),
     MatchMarket("kalshi", "k3", "trump wins 2024"),
     MatchMarket("kalshi", "k4", "Trump win 2025"),
     MatchMarket("kalshi", "k5", "fed cuts"),
     MatchMarket("kalshi", "k6", "2030")}

\* the questions the pair specification draws its two markets from
PairQuestions ==
    {"Trump win 2024", "DJT win 2024", "Trump win 2025", "Fed cut", "fed cuts",
     "2030", "x 2024 2025", "y 2025 2024", "x 2024 2024 2025",
     "cut in May", "cut in June"}

\* text_match of the questions of the pools, computed once
text_match_memo ==
    [text_a \in {m.question : m \in MatchPoolA} \cup PairQuestions,
     text_b \in {m.question : m \in MatchPoolB} \cup PairQuestions |->
        text_match(text_a, text_b)]

TextMatch(text_a, text_b) ==
    IF <<text_a, text_b>> \in DOMAIN text_match_memo
    THEN text_match_memo[text_a, text_b]
    ELSE text_match(text_a, text_b)

\* variant: the weights of the two scores are exchanged
Blend_swapped(fuzzy_score, semantic_score) ==
    RatDivInt(RatAdd(RatMul(fuzzy_score, Rat(6, 10)),
                     RatMul(semantic_score, Rat(4, 10))), 100)

\* the blend of line 86
Blend(fuzzy_score, semantic_score) ==
    RatDivInt(RatAdd(RatMul(fuzzy_score, Rat(4, 10)),
                     RatMul(semantic_score, Rat(6, 10))), 100)

\* lines 74-83: the embedding step is run only when use_semantic is set; its
\* failure is caught and leaves semantic_score at 0.0
SemanticScore(self, cosine) ==
    IF self.use_semantic /\ self.embedder # None /\ cosine # None
    THEN RatMul(Get(cosine), RatOf(100))
    ELSE RatOf(0)

\* variant: any nonzero semantic score is blended in (# 0 for > 0)
Confidence_nonzero(self, fuzzy_score, semantic_score) ==
    IF self.use_semantic /\ semantic_score # RatOf(0)
    THEN Blend(fuzzy_score, semantic_score)
    ELSE RatDivInt(fuzzy_score, 100)

\* lines 85-88
Confidence(self, fuzzy_score, semantic_score) ==
    IF self.use_semantic /\ RatLess(RatOf(0), semantic_score)
    THEN Blend(fuzzy_score, semantic_score)
    ELSE RatDivInt(fuzzy_score, 100)

\* variant: identical normalized questions are scored like any other pair
MatchOutcome_noShortCircuit(self, market_a, market_b, tm, semantic_score) ==
    IF tm.vetoed THEN None
    ELSE Some(MatchResult(market_a, market_b,
                          Confidence(self, tm.fuzzy_score, semantic_score),
                          tm.fuzzy_score, semantic_score))

\* variant: differing years do not veto the pair
MatchOutcome_noVeto(self, market_a, market_b, tm, semantic_score) ==
    IF tm.identical
    THEN Some(MatchResult(market_a, market_b, RatOf(1), RatOf(100), RatOf(0)))
    ELSE Some(MatchResult(market_a, market_b,
                          Confidence(self, tm.fuzzy_score, semantic_score),
                          tm.fuzzy_score, semantic_score))

\* _calculate_match once the two questions have been read: tm is their
\* text_match, semantic_score the outcome of lines 74-83
MatchOutcome(self, market_a, market_b, tm, semantic_score) ==
    IF tm.identical
    THEN Some(MatchResult(market_a, market_b, RatOf(1), RatOf(100), RatOf(0)))
    ELSE IF tm.vetoed THEN None
    ELSE Some(MatchResult(market_a, market_b,
                          Confidence(self, tm.fuzzy_score, semantic_score),
                          tm.fuzzy_score, semantic_score))

\* cosine is what the embedding step yields for the pair when it is run: None
\* when encode (or the cosine) raises, Some(c) for a cosine similarity c.
\* The result is None (vetoed) or Some(MatchResult).
_calculate_match(self, market_a, market_b, cosine) ==
    CHOOSE result \in
        {MatchOutcome(self, market_a, market_b, tm, semantic_score) :
            tm \in {TextMatch(market_a.question, market_b.question)},
            semantic_score \in {SemanticScore(self, cosine)}} : TRUE

\* variant: a result of equal confidence also replaces the best match
Better_orEqual(result, best_confidence) ==
    result # None /\ RatLeq(best_confidence, Get(result).confidence)

\* lines 62-77: whether _calculate_match reaches self.embedder.encode for the
\* pair: the questions are not identical once normalized, the dates do not
\* veto the pair, and the matcher has semantic scoring on and an embedder
RunsEncode(self, market_a, market_b) ==
    \E tm \in {TextMatch(market_a.question, market_b.question)} :
        /\ ~tm.identical
        /\ ~tm.vetoed
        /\ self.use_semantic
        /\ self.embedder # None

\* lines 82-83: the embedding step was run and raised; the exception is
\* caught and a warning is logged
LogsWarning(self, market_a, market_b, cosine) ==
    RunsEncode(self, market_a, market_b) /\ cosine = None

\* line 47: whether a result replaces the best match so far
Better(result, best_confidence) ==
    result # None /\ RatLess(best_confidence, Get(result).confidence)

\* the inner loop of match_markets over markets_b, from index j: best_match
\* is None or Some(MatchResult); encode maps a pair of market ids to the
\* cosine outcome of the embedding step for that pair
RECURSIVE BestMatch(_, _, _, _, _, _, _)
BestMatch(self, market_a, markets_b, j, best_match, best_confidence, encode) ==
    IF j > Len(markets_b) THEN best_match
    ELSE CHOOSE best \in
        {IF Better(result, best_confidence)
         THEN BestMatch(self, market_a, markets_b, j + 1, result,
                        Get(result).confidence, encode)
         ELSE BestMatch(self, market_a, markets_b, j + 1, best_match,
                        best_confidence, encode) :
            result \in {_calculate_match(self, market_a, markets_b[j],
                            encode[market_a.market_id, markets_b[j].market_id])}} :
        TRUE

\* variant: every best match is appended, whatever its confidence
Emits_anyBest(self, best_match) == best_match # None

\* line 49: whether the best match of one market of A is appended
Emits(self, best_match) ==
    best_match # None /\ RatLeq(self.min_confidence, Get(best_match).confidence)

\* variant: the best match is put at the front of matches
RECURSIVE MatchLoop_prepend(_, _, _, _, _, _)
MatchLoop_prepend(self, markets_a, markets_b, i, matches, encode) ==
    IF i > Len(markets_a) THEN matches
    ELSE CHOOSE result \in
        {MatchLoop_prepend(self, markets_a, markets_b, i + 1,
                   IF Emits(self, best_match)
                   THEN <<Get(best_match)>> \o matches ELSE matches,
                   encode) :
            best_match \in {BestMatch(self, markets_a[i], markets_b, 1, None,
                                      RatOf(0), encode)}} : TRUE

\* variant: a market of B that has been matched is withdrawn from the markets
\* offered to the later markets of A
RECURSIVE MatchLoop_exclusive(_, _, _, _, _, _)
MatchLoop_exclusive(self, markets_a, markets_b, i, matches, encode) ==
    IF i > Len(markets_a) THEN matches
    ELSE CHOOSE result \in
        {IF Emits(self, best_match)
         THEN MatchLoop_exclusive(self, markets_a,
                  SelectSeq(markets_b, LAMBDA m : m # Get(best_match).market_b),
                  i + 1, Append(matches, Get(best_match)), encode)
         ELSE MatchLoop_exclusive(self, markets_a, markets_b, i + 1, matches,
                                  encode) :
            best_match \in {BestMatch(self, markets_a[i], markets_b, 1, None,
                                      RatOf(0), encode)}} : TRUE

\* variant: the running best of each market of A starts below zero
RECURSIVE MatchLoop_bestFromBelowZero(_, _, _, _, _, _)
MatchLoop_bestFromBelowZero(self, markets_a, markets_b, i, matches, encode) ==
    IF i > Len(markets_a) THEN matches
    ELSE CHOOSE result \in
        {MatchLoop_bestFromBelowZero(self, markets_a, markets_b, i + 1,
                   IF Emits(self, best_match)
                   THEN Append(matches, Get(best_match)) ELSE matches,
                   encode) :
            best_match \in {BestMatch(self, markets_a[i], markets_b, 1, None,
                                      RatOf(-1), encode)}} : TRUE

\* the outer loop of match_markets over markets_a, from index i
RECURSIVE MatchLoop(_, _, _, _, _, _)
MatchLoop(self, markets_a, markets_b, i, matches, encode) ==
    IF i > Len(markets_a) THEN matches
    ELSE CHOOSE result \in
        {MatchLoop(self, markets_a, markets_b, i + 1,
                   IF Emits(self, best_match)
                   THEN Append(matches, Get(best_match)) ELSE matches,
                   encode) :
            best_match \in {BestMatch(self, markets_a[i], markets_b, 1, None,
                                      RatOf(0), encode)}} : TRUE

match_markets(self, markets_a, markets_b, encode) ==
    MatchLoop(self, markets_a, markets_b, 1, << >>, encode)

\* match_markets calls _calculate_match for every pair of the two lists: the
\* pairs for which the embedding step is run, and those for which it raises
EncodedPairs(self, markets_a, markets_b) ==
    {p \in (DOMAIN markets_a) \X (DOMAIN markets_b) :
        RunsEncode(self, markets_a[p[1]], markets_b[p[2]])}

WarnedPairs(self, markets_a, markets_b, encode) ==
    {p \in (DOMAIN markets_a) \X (DOMAIN markets_b) :
        LogsWarning(self, markets_a[p[1]], markets_b[p[2]],
            encode[markets_a[p[1]].market_id, markets_b[p[2]].market_id])}

----------------------------------------------------------------------------
(* The module-level objects: calculator = ArbitrageCalculator() and        *)
(* matcher = SemanticMatcher(), built with the default arguments.          *)

DefaultMinConfidence == Rat(8, 10)

DefaultCalculator == ArbitrageCalculator(DefaultMinProfitPct, DefaultMinLiquidity)

DefaultMatcher == SemanticMatcher(DefaultMinConfidence, TRUE, TRUE)

----------------------------------------------------------------------------
(* The calculator specification: Init constructs a calculator and draws    *)
(* the arguments of one calculate call; Calculate runs it.                 *)

InitCalc ==
    /\ calculator \in {ArbitrageCalculator(p, l) :
                          p \in MinProfitPcts, l \in MinLiquidities}
    /\ matcher = DefaultMatcher
    /\ call \in [fn : {"calculate"}, market_a : CalcMarketsA,
                 market_b : CalcMarketsB, match_confidence : Confidences]
    /\ ret = None
    /\ pc = "ready"
    /\ encode_calls = 0
    /\ warnings = 0
    /\ calls = 0
    /\ cache = NoFiles

\* variant: calculate writes a liquidity of 0 into a market that has none
Calculate_fillsLiquidity ==
    /\ pc = "ready"
    /\ call.fn = "calculate"
    /\ ret' = calculate(calculator, call.market_a, call.market_b,
                        call.match_confidence)
    /\ call' = IF call.market_a.liquidity = None
               THEN [call EXCEPT !.market_a.liquidity = Some(0)] ELSE call
    /\ pc' = "done"
    /\ UNCHANGED <<cache, calculator, matcher, encode_calls, warnings, calls>>

Calculate ==
    /\ pc = "ready"
    /\ call.fn = "calculate"
    /\ ret' = calculate(calculator, call.market_a, call.market_b,
                        call.match_confidence)
    /\ pc' = "done"
    /\ UNCHANGED <<cache, calculator, matcher, call, encode_calls, warnings, calls>>

NextCalc == Calculate

SpecCalc == InitCalc /\ [][NextCalc]_vars

----------------------------------------------------------------------------
(* The matching specification: Init constructs a matcher (the embedding    *)
(* model loads or fails to load) and draws the two lists of one            *)
(* match_markets call together with the behaviour of the embedding step    *)
(* during the call; MatchMarkets runs the call.                            *)

MaxMarketsA == 2

MaxMarketsB == 2

SeqsUpTo(S, n) == UNION {[1..k -> S] : k \in 0..n}

MinConfidences == {RatOf(0), DefaultMinConfidence}

\* the embedding step raises, or yields a cosine of -0.5, 0.5 or 1.0
Cosines == {None, Some(Rat(-1, 2)), Some(Rat(1, 2)), Some(RatOf(1))}

IdPairs ==
    {m.market_id : m \in MatchPoolA} \X {m.market_id : m \in MatchPoolB}

\* the same outcome for every pair, or an outcome that depends on the pair
EncodeBehaviours ==
    {[p \in IdPairs |-> c] : c \in Cosines}
    \cup {[p \in IdPairs |->
             CASE p[2] = "k2" -> Some(Rat(1, 2))
               [] p[2] = "k3" -> Some(RatOf(1))
               [] p[2] = "k5" -> Some(Rat(-1, 2))
               [] p[2] = "k6" -> Some(Rat(1, 2))
               [] OTHER       -> None]}

InitMatch ==
    /\ calculator = DefaultCalculator
    /\ matcher \in {SemanticMatcher(c, u, l) :
                       c \in MinConfidences, u \in BOOLEAN, l \in BOOLEAN}
    /\ call \in [fn : {"match_markets"},
                 markets_a : SeqsUpTo(MatchPoolA, MaxMarketsA),
                 markets_b : SeqsUpTo(MatchPoolB, MaxMarketsB),
                 encode : EncodeBehaviours]
    /\ ret = None
    /\ pc = "ready"
    /\ encode_calls = 0
    /\ warnings = 0
    /\ calls = 0
    /\ cache = NoFiles

MatchMarkets ==
    /\ pc = "ready"
    /\ call.fn = "match_markets"
    /\ ret' = match_markets(matcher, call.markets_a, call.markets_b, call.encode)
    /\ encode_calls' = encode_calls
            + Cardinality(EncodedPairs(matcher, call.markets_a, call.markets_b))
    /\ warnings' = warnings
            + Cardinality(WarnedPairs(matcher, call.markets_a, call.markets_b,
                                      call.encode))
    /\ calls' = calls + 1
    /\ pc' = "done"
    /\ UNCHANGED <<cache, calculator, matcher, call>>

NextMatch == MatchMarkets

SpecMatch == InitMatch /\ [][NextMatch]_vars

----------------------------------------------------------------------------
(* The pair specification: Init constructs a matcher and draws the two     *)
(* markets of one _calculate_match call together with what the embedding   *)
(* step yields for the pair if it is run; CalculateMatch runs the call.    *)

Platforms == {"polymarket", "kalshi"}

PairMarketsA == {MatchMarket(p, "a", q) : p \in Platforms, q \in PairQuestions}

PairMarketsB == {MatchMarket(p, "b", q) : p \in Platforms, q \in PairQuestions}

\* the embedding step raises, or yields a cosine between -1 and 1
PairCosines == Cosines \cup {Some(RatOf(-1)), Some(RatOf(0))}

InitPair ==
    /\ calculator = DefaultCalculator
    /\ matcher \in {SemanticMatcher(c, u, l) :
                       c \in MinConfidences, u \in BOOLEAN, l \in BOOLEAN}
    /\ call \in [fn : {"_calculate_match"}, market_a : PairMarketsA,
                 market_b : PairMarketsB, cosine : PairCosines]
    /\ ret = None
    /\ pc = "ready"
    /\ encode_calls = 0
    /\ warnings = 0
    /\ calls = 0
    /\ cache = NoFiles

\* variant: a failure of the embedding step switches semantic scoring off
CalculateMatch_degrades ==
    /\ pc = "ready"
    /\ call.fn = "_calculate_match"
    /\ ret' = _calculate_match(matcher, call.market_a, call.market_b, call.cosine)
    /\ encode_calls' = encode_calls
            + (IF RunsEncode(matcher, call.market_a, call.market_b) THEN 1 ELSE 0)
    /\ warnings' = warnings
            + (IF LogsWarning(matcher, call.market_a, call.market_b, call.cosine)
               THEN 1 ELSE 0)
    /\ matcher' = IF LogsWarning(matcher, call.market_a, call.market_b, call.cosine)
                  THEN [matcher EXCEPT !.use_semantic = FALSE]
                  ELSE matcher
    /\ calls' = calls + 1
    /\ pc' = "done"
    /\ UNCHANGED <<cache, calculator, call>>

CalculateMatch ==
    /\ pc = "ready"
    /\ call.fn = "_calculate_match"
    /\ ret' = _calculate_match(matcher, call.market_a, call.market_b, call.cosine)
    /\ encode_calls' = encode_calls
            + (IF RunsEncode(matcher, call.market_a, call.market_b) THEN 1 ELSE 0)
    /\ warnings' = warnings
            + (IF LogsWarning(matcher, call.market_a, call.market_b, call.cosine)
               THEN 1 ELSE 0)
    /\ calls' = calls + 1
    /\ pc' = "done"
    /\ UNCHANGED <<cache, calculator, matcher, call>>

NextPair == CalculateMatch

SpecPair == InitPair /\ [][NextPair]_vars

----------------------------------------------------------------------------
(* The lifetime specification: Init constructs a matcher; Invoke hands it  *)
(* the next call, a _calculate_match on a pair or a match_markets on two   *)
(* lists, and CalculateMatch or MatchMarkets runs it; the matcher serves   *)
(* up to MaxCalls calls.                                                   *)

MaxCalls == 2

\* markets of the two platforms, with quotes that make some pairs
\* profitable, one not profitable, and one of too low a liquidity
DetectMarkets ==
    {[platform |-> "polymarket", market_id |-> "p1", question |-> "Trump win 2024",
      yes_price |-> 400, no_price |-> 600, liquidity |-> Some(100)],
     [platform |-> "polymarket", market_id |-> "p2", question |-> "Fed cut",
      yes_price |-> 450, no_price |-> 550, liquidity |-> None],
     [platform |-> "polymarket", market_id |-> "p3", question |-> "Fed cut",
      yes_price |-> 490, no_price |-> 510, liquidity |-> Some(50)],
     [platform |-> "kalshi", market_id |-> "k1", question |-> "DJT win 2024",
      yes_price |-> 420, no_price |-> 580, liquidity |-> None],
     [platform |-> "kalshi", market_id |-> "k2", question |-> "DJT win 2024",
      yes_price |-> 400, no_price |-> 600, liquidity |-> None],
     [platform |-> "kalshi", market_id |-> "k5", question |-> "Fed cut",
      yes_price |-> 550, no_price |-> 450, liquidity |-> Some(100)],
     [platform |-> "kalshi", market_id |-> "k6", question |-> "fed cuts",
      yes_price |-> 500, no_price |-> 500, liquidity |-> None]}

LifePoolB == {m \in MatchPoolB : m.market_id \in {"k1", "k5", "k6"}}

\* the matcher is called with one market of A against one or two markets of
\* B; the calculator with a market of each platform, or with a result
LifeCalls ==
    [fn : {"_calculate_match"}, market_a : MatchPoolA, market_b : LifePoolB,
     cosine : Cosines]
    \cup [fn : {"match_markets"},
          markets_a : {<<a>> : a \in MatchPoolA},
          markets_b : {<<b>> : b \in LifePoolB}
                        \cup {<<b1, b2>> : b1 \in LifePoolB, b2 \in LifePoolB},
          encode : EncodeBehaviours]
    \cup [fn : {"calculate"},
          market_a : {m \in DetectMarkets : m.platform = "polymarket"},
          market_b : {m \in DetectMarkets : m.platform = "kalshi"},
          match_confidence : {RatOf(1)}]
    \cup [fn : {"get_strategy_description"},
          result : {Get(r) : r \in
                      {calculate(DefaultCalculator, a, b, RatOf(1)) :
                          a \in DetectMarkets, b \in DetectMarkets} \ {None}}]

InitLife ==
    /\ calculator = DefaultCalculator
    /\ matcher \in {SemanticMatcher(c, u, l) :
                       c \in MinConfidences \cup {Rat(-1, 10)},
                       u \in BOOLEAN, l \in BOOLEAN}
    /\ call = [fn |-> "__init__"]
    /\ ret = None
    /\ pc = "done"
    /\ encode_calls = 0
    /\ warnings = 0
    /\ calls = 0
    /\ cache = NoFiles

Invoke ==
    /\ pc = "done"
    /\ calls < MaxCalls
    /\ call' \in LifeCalls
    /\ ret' = None
    /\ pc' = "ready"
    /\ UNCHANGED <<cache, calculator, matcher, encode_calls, warnings, calls>>

\* calculator.get_strategy_description(result)
GetStrategyDescription ==
    /\ pc = "ready"
    /\ call.fn = "get_strategy_description"
    /\ ret' = get_strategy_description(calculator, call.result)
    /\ pc' = "done"
    /\ UNCHANGED <<cache, calculator, matcher, call, encode_calls, warnings, calls>>

NextLife ==
    \/ Invoke
    \/ CalculateMatch
    \/ MatchMarkets
    \/ Calculate
    \/ GetStrategyDescription

SpecLife == InitLife /\ [][NextLife]_vars

----------------------------------------------------------------------------
(* TextNormalizer.normalize applied to a text, and again to its own result *)
(* (a normalized question that is normalized once more).                   *)

\* the texts normalize is called on: two words and what stands between them
NormTexts ==
    {f \o s \o w :
        f \in {"donald", "Joe", "federal", "United", "the", "rate"},
        s \in {" ", "  ", ". ", ", ", " the ", " of ", "-"},
        w \in {"trump", "Biden", "reserve", "states", "cut 2024"}}

\* the variants of the alias table, each as a text of its own
AliasVariants == {reverse_map[k][1] : k \in 1..Len(reverse_map)}

\* texts with stopwords, short and long, and the empty and the blank text
StopwordTexts ==
    {"", "   ", "Will the Fed cut?", "the a with will were been being is",
     "  be  in Q1 ", "rates are to be cut by the Fed", "was it an x",
     "being with", "the", "on-the at", "will.i.am is", "of"}

InitNorm ==
    /\ calculator = DefaultCalculator
    /\ matcher = DefaultMatcher
    /\ call \in [fn : {"normalize"},
                 text : NormTexts \cup AliasVariants \cup StopwordTexts,
                 renormalized : {FALSE}]
    /\ ret = None
    /\ pc = "ready"
    /\ encode_calls = 0
    /\ warnings = 0
    /\ calls = 0
    /\ cache = NoFiles

\* normalizer.normalize(text)
Normalize ==
    /\ pc = "ready"
    /\ call.fn = "normalize"
    /\ ret' = Some(normalize(call.text))
    /\ pc' = "done"
    /\ UNCHANGED <<cache, calculator, matcher, call, encode_calls, warnings, calls>>

\* the text normalize returned is handed to normalize again
Renormalize ==
    /\ pc = "done"
    /\ call.fn = "normalize"
    /\ call' = [fn |-> "normalize", text |-> Get(ret), renormalized |-> TRUE]
    /\ ret' = None
    /\ pc' = "ready"
    /\ UNCHANGED <<cache, calculator, matcher, encode_calls, warnings, calls>>

NextNorm == Normalize \/ Renormalize

SpecNorm == InitNorm /\ [][NextNorm]_vars

----------------------------------------------------------------------------
(* TextNormalizer.extract_date_context applied to a text.                  *)

\* texts without a date, with a year, a month, a quarter, and near misses
DateTexts ==
    {p \o t \o x :
        p \in {"", "cut by ", "Fed in "},
        t \in {"", "2024", "1999", "20245", "May", "june", "maybe", "Sept",
               "March 2025", "Q1", "q5", "first quarter", "q3 2024",
               "Q2 of 2025", "second quarter, June"},
        x \in {"", "?", " q4"}}

InitDate ==
    /\ calculator = DefaultCalculator
    /\ matcher = DefaultMatcher
    /\ call \in [fn : {"extract_date_context"}, text : DateTexts]
    /\ ret = None
    /\ pc = "ready"
    /\ encode_calls = 0
    /\ warnings = 0
    /\ calls = 0
    /\ cache = NoFiles

\* normalizer.extract_date_context(text)
ExtractDateContext ==
    /\ pc = "ready"
    /\ call.fn = "extract_date_context"
    /\ ret' = Some(extract_date_context(call.text))
    /\ pc' = "done"
    /\ UNCHANGED <<cache, calculator, matcher, call, encode_calls, warnings, calls>>

NextDate == ExtractDateContext

SpecDate == InitDate /\ [][NextDate]_vars

----------------------------------------------------------------------------
(* ArbitrageCalculator.calculate on the two markets of the "small profit   *)
(* margin" case of tests/test_arbitrage_logic.py.                          *)

\* yes=0.495/no=0.505 and yes=0.49/no=0.51, liquidity unset or at least the
\* minimum liquidity of every calculator below
ScenarioMarketsA ==
    [platform : {"polymarket"}, market_id : {"a"}, question : {"Event A"},
     yes_price : {495}, no_price : {505},
     liquidity : {None, Some(100), Some(1000), Some(10000)}]

ScenarioMarketsB ==
    [platform : {"kalshi"}, market_id : {"b"}, question : {"Event A"},
     yes_price : {490}, no_price : {510},
     liquidity : {None, Some(100), Some(1000), Some(10000)}]

\* minimum profits of 0.25%, 0.5%, 1.0% and the default 2.0%
InitScenario ==
    /\ calculator \in {ArbitrageCalculator(p, l) :
                          p \in {250, 500, 1000, DefaultMinProfitPct},
                          l \in MinLiquidities}
    /\ matcher = DefaultMatcher
    /\ call \in [fn : {"calculate"}, market_a : ScenarioMarketsA,
                 market_b : ScenarioMarketsB, match_confidence : Confidences]
    /\ ret = None
    /\ pc = "ready"
    /\ encode_calls = 0
    /\ warnings = 0
    /\ calls = 0
    /\ cache = NoFiles

SpecScenario == InitScenario /\ [][NextCalc]_vars

----------------------------------------------------------------------------
(* MarketCache: the files of the cache directory, by file name.  A file    *)
(* that is missing, too old or unreadable loads as None.                   *)

\* cache.load_data(filename, max_age_hours)
load_data(files, filename) ==
    IF filename \in DOMAIN files THEN Some(files[filename]) ELSE None

\* cache.save_data(filename, data)
save_data(files, filename, data) ==
    [f \in DOMAIN files \cup {filename} |->
        IF f = filename THEN data ELSE files[f]]

\* the file is gone, too old or unreadable
without_file(files, filename) ==
    [f \in DOMAIN files \ {filename} |-> files[f]]

----------------------------------------------------------------------------
(* KalshiClient.get_markets_by_category.  The world of one call: whether   *)
(* authentication and the series request succeed, the response for each    *)
(* relevant series (None: the request failed; else its items, TRUE for an  *)
(* item _parse_market turns into a Market), whether the cache file can be  *)
(* written.                                                                *)

MaxSeries == 2

MaxItems == 2

MaxLimit == 2

CATEGORY_MAP == {"politics", "economy", "crypto", "sports"}

\* the Market parsed from item k of the response for series s
KalshiMarket(s, k) == [platform |-> "kalshi", market_id |-> <<s, k>>]

\* for item in data.get("markets", []): from item k of the response of
\* series s, with the markets collected so far
RECURSIVE ItemLoop(_, _, _, _, _)
ItemLoop(items, s, k, markets, limit) ==
    IF k > Len(items) THEN markets
    ELSE LET added == IF items[k] THEN Append(markets, KalshiMarket(s, k))
                      ELSE markets
         IN  IF Len(added) >= limit THEN added
             ELSE ItemLoop(items, s, k + 1, added, limit)

\* for series_data in relevant_series: from series s
RECURSIVE SeriesLoop(_, _, _, _)
SeriesLoop(responses, s, markets, limit) ==
    IF s > Len(responses) THEN markets
    ELSE IF responses[s] = None
         THEN SeriesLoop(responses, s + 1, markets, limit)
         ELSE SeriesLoop(responses, s + 1,
                         ItemLoop(Get(responses[s]), s, 1, markets, limit), limit)

\* the markets returned and the files of the cache afterwards
get_markets_by_category(files, category, limit, world) ==
    LET cache_key == <<"kalshi_markets", category, limit>>
        cached    == load_data(files, cache_key)
    IN  IF cached # None /\ Get(cached) # << >>
        THEN [markets |-> Get(cached), files |-> files]
        ELSE IF world.failure = "fetch" \/ category \notin CATEGORY_MAP
        THEN [markets |-> << >>, files |-> files]
        ELSE IF world.failure = "save"
        THEN [markets |-> << >>, files |-> without_file(files, cache_key)]
        ELSE [markets |-> SeriesLoop(world.responses, 1, << >>, limit),
              files   |-> save_data(files, cache_key,
                                    SeriesLoop(world.responses, 1, << >>, limit))]

KalshiCalls ==
    [fn : {"get_markets_by_category"}, category : {"politics", "weather"},
     limit : 1..MaxLimit,
     world : [failure : {"none", "fetch", "save"},
              responses :
                  SeqsUpTo({None} \cup {Some(items) :
                                           items \in SeqsUpTo(BOOLEAN, MaxItems)},
                           MaxSeries)]]

InitKalshi ==
    /\ calculator = DefaultCalculator
    /\ matcher = DefaultMatcher
    /\ call \in KalshiCalls
    /\ ret = None
    /\ pc = "ready"
    /\ encode_calls = 0
    /\ warnings = 0
    /\ calls = 0
    /\ cache = NoFiles

GetMarketsByCategory ==
    /\ pc = "ready"
    /\ call.fn = "get_markets_by_category"
    /\ \E out \in {get_markets_by_category(cache, call.category, call.limit,
                                            call.world)} :
          /\ ret' = out.markets
          /\ cache' = out.files
    /\ calls' = calls + 1
    /\ pc' = "done"
    /\ UNCHANGED <<calculator, matcher, call, encode_calls, warnings>>

\* the same request is made once more
CallAgain ==
    /\ pc = "done"
    /\ calls < MaxCalls
    /\ ret' = None
    /\ pc' = "ready"
    /\ UNCHANGED <<cache, calculator, matcher, call, encode_calls, warnings, calls>>

\* time passes and a file of the cache becomes too old
CacheExpires ==
    /\ pc = "done"
    /\ \E filename \in DOMAIN cache : cache' = without_file(cache, filename)
    /\ UNCHANGED <<calculator, matcher, call, ret, pc, encode_calls, warnings, calls>>

NextKalshi == GetMarketsByCategory \/ CallAgain \/ CacheExpires

SpecKalshi == InitKalshi /\ [][NextKalshi]_vars

----------------------------------------------------------------------------
(* KnowledgeBase.update_embeddings.  The cached embeddings are a mapping   *)
(* from key to vector; the vector of a text is written <<text>>.           *)

\* the keys of markets whose embedding is to be generated, from market i on
RECURSIVE new_questions(_, _, _)
new_questions(markets, existing_embeddings, i) ==
    IF i > Len(markets) THEN << >>
    ELSE (IF markets[i].market_id \notin DOMAIN existing_embeddings
          THEN <<markets[i].question>> ELSE << >>)
         \o new_questions(markets, existing_embeddings, i + 1)

\* for question, embedding in zip(...): existing_embeddings[question] = embedding
add_embeddings(existing_embeddings, questions) ==
    [q \in DOMAIN existing_embeddings \cup {questions[k] : k \in DOMAIN questions} |->
        IF \E k \in DOMAIN questions : questions[k] = q
        THEN <<q>> ELSE existing_embeddings[q]]

\* the files afterwards, whether the model was asked for embeddings, and
\* whether the call raised (the model could not be loaded)
update_embeddings(files, markets, model_ok) ==
    LET loaded   == load_data(files, "embeddings_cache.json")
        existing == IF loaded = None THEN << >> ELSE Get(loaded)
        new      == new_questions(markets, existing, 1)
    IN  IF new = << >>
        THEN [files |-> files, generated |-> FALSE, raised |-> FALSE]
        ELSE IF ~model_ok
        THEN [files |-> files, generated |-> FALSE, raised |-> TRUE]
        ELSE [files |-> save_data(files, "embeddings_cache.json",
                                  add_embeddings(existing, new)),
              generated |-> TRUE, raised |-> FALSE]

InitKnowledge ==
    /\ calculator = DefaultCalculator
    /\ matcher = DefaultMatcher
    /\ call \in [fn : {"update_embeddings"},
                 markets : SeqsUpTo(MatchPoolA \cup LifePoolB, MaxMarketsA),
                 model_ok : BOOLEAN]
    /\ ret = None
    /\ pc = "ready"
    /\ encode_calls = 0
    /\ warnings = 0
    /\ calls = 0
    /\ cache = NoFiles

\* encode_calls counts the requests to the model, warnings the logged errors
UpdateEmbeddings ==
    /\ pc = "ready"
    /\ call.fn = "update_embeddings"
    /\ \E out \in {update_embeddings(cache, call.markets, call.model_ok)} :
          /\ cache' = out.files
          /\ encode_calls' = encode_calls + (IF out.generated THEN 1 ELSE 0)
          /\ warnings' = warnings + (IF out.raised THEN 1 ELSE 0)
    /\ ret' = None
    /\ calls' = calls + 1
    /\ pc' = "done"
    /\ UNCHANGED <<calculator, matcher, call>>

NextKnowledge == UpdateEmbeddings \/ CallAgain \/ CacheExpires

SpecKnowledge == InitKnowledge /\ [][NextKnowledge]_vars

----------------------------------------------------------------------------
(* ArbitrageDetector.detect_opportunities: the markets the two clients     *)
(* return are matched, calculate is applied to every match, and the        *)
(* results are sorted.                                                     *)

\* variant: the list is sorted by ascending profit_pct
RECURSIVE insert_by_profit_ascending(_, _)
insert_by_profit_ascending(x, sorted_list) ==
    IF sorted_list = << >> THEN <<x>>
    ELSE IF sorted_list[1].profit_pct <= x.profit_pct
         THEN <<sorted_list[1]>> \o insert_by_profit_ascending(x, Tail(sorted_list))
         ELSE <<x>> \o sorted_list

\* x is put behind the results whose profit_pct is at least its own
RECURSIVE insert_by_profit(_, _)
insert_by_profit(x, sorted_list) ==
    IF sorted_list = << >> THEN <<x>>
    ELSE IF sorted_list[1].profit_pct >= x.profit_pct
         THEN <<sorted_list[1]>> \o insert_by_profit(x, Tail(sorted_list))
         ELSE <<x>> \o sorted_list

\* opportunities.sort(key=lambda x: x.profit_pct, reverse=True): the sort is
\* stable, results of equal profit_pct keep their order
RECURSIVE sort_by_profit(_, _)
sort_by_profit(opportunities, n) ==
    IF n = 0 THEN << >>
    ELSE insert_by_profit(opportunities[n], sort_by_profit(opportunities, n - 1))

detect_opportunities(polymarket_markets, kalshi_markets, encode) ==
    IF polymarket_markets = << >> \/ kalshi_markets = << >> THEN << >>
    ELSE CHOOSE sorted_list \in
        {sort_by_profit(opportunities, Len(opportunities)) :
            opportunities \in
                {[k \in DOMAIN results |-> Get(results[k])] :
                    results \in
                        {SelectSeq([k \in DOMAIN matches |->
                                      calculate(calculator, matches[k].market_a,
                                                matches[k].market_b,
                                                matches[k].confidence)],
                                   LAMBDA result : result # None) :
                            matches \in {match_markets(matcher, polymarket_markets,
                                                       kalshi_markets, encode)}}}} :
        TRUE

InitDetect ==
    /\ calculator = DefaultCalculator
    /\ matcher \in {SemanticMatcher(DefaultMinConfidence, TRUE, l) : l \in BOOLEAN}
    /\ call \in [fn : {"detect_opportunities"},
                 polymarket_markets :
                     SeqsUpTo({m \in DetectMarkets : m.platform = "polymarket"},
                              MaxMarketsA),
                 kalshi_markets :
                     SeqsUpTo({m \in DetectMarkets : m.platform = "kalshi"},
                              MaxMarketsB),
                 encode : {[p \in {"p1", "p2", "p3"} \X {"k1", "k2", "k5", "k6"} |-> c] :
                              c \in {None, Some(RatOf(1))}}]
    /\ ret = None
    /\ pc = "ready"
    /\ encode_calls = 0
    /\ warnings = 0
    /\ calls = 0
    /\ cache = NoFiles

DetectOpportunities ==
    /\ pc = "ready"
    /\ call.fn = "detect_opportunities"
    /\ ret' = detect_opportunities(call.polymarket_markets, call.kalshi_markets,
                                   call.encode)
    /\ encode_calls' = encode_calls
            + Cardinality(EncodedPairs(matcher, call.polymarket_markets,
                                       call.kalshi_markets))
    /\ warnings' = warnings
            + Cardinality(WarnedPairs(matcher, call.polymarket_markets,
                                      call.kalshi_markets, call.encode))
    /\ calls' = calls + 1
    /\ pc' = "done"
    /\ UNCHANGED <<cache, calculator, matcher, call>>

NextDetect == DetectOpportunities

SpecDetect == InitDetect /\ [][NextDetect]_vars

----------------------------------------------------------------------------
(* The outer loop of match_markets split across two workers: worker 1 runs *)
(* the loop body for the first call.split markets of A, worker 2 for the   *)
(* others, each appending to a result slot of its own.  pc[w] is the       *)
(* position in A of the market worker w handles next, ret[w] its slot.     *)

InitSplit ==
    /\ calculator = DefaultCalculator
    /\ matcher \in {SemanticMatcher(c, TRUE, l) :
                       c \in MinConfidences, l \in BOOLEAN}
    /\ \E markets_a \in SeqsUpTo(MatchPoolA, MaxMarketsA) :
          call \in [fn : {"match_markets"}, markets_a : {markets_a},
                    markets_b : SeqsUpTo(LifePoolB, MaxMarketsB),
                    encode : EncodeBehaviours,
                    split : 0..Len(markets_a)]
    /\ ret = << << >>, << >> >>
    /\ pc = <<1, call.split + 1>>
    /\ encode_calls = 0
    /\ warnings = 0
    /\ calls = 0
    /\ cache = NoFiles

\* variant: both workers append to the slot of worker 1
Work_sharedSlot(w) ==
    /\ call.fn = "match_markets"
    /\ pc[w] <= (IF w = 1 THEN call.split ELSE Len(call.markets_a))
    /\ \E best_match \in {BestMatch(matcher, call.markets_a[pc[w]], call.markets_b,
                                     1, None, RatOf(0), call.encode)} :
          ret' = [ret EXCEPT ![1] = IF Emits(matcher, best_match)
                                    THEN Append(@, Get(best_match)) ELSE @]
    /\ pc' = [pc EXCEPT ![w] = @ + 1]
    /\ encode_calls' = encode_calls
            + Cardinality(EncodedPairs(matcher, <<call.markets_a[pc[w]]>>,
                                       call.markets_b))
    /\ warnings' = warnings
            + Cardinality(WarnedPairs(matcher, <<call.markets_a[pc[w]]>>,
                                      call.markets_b, call.encode))
    /\ UNCHANGED <<cache, calculator, matcher, call, calls>>

\* one pass of the loop body (lines 39-50) by worker w
Work(w) ==
    /\ call.fn = "match_markets"
    /\ pc[w] <= (IF w = 1 THEN call.split ELSE Len(call.markets_a))
    /\ \E best_match \in {BestMatch(matcher, call.markets_a[pc[w]], call.markets_b,
                                     1, None, RatOf(0), call.encode)} :
          ret' = [ret EXCEPT ![w] = IF Emits(matcher, best_match)
                                    THEN Append(@, Get(best_match)) ELSE @]
    /\ pc' = [pc EXCEPT ![w] = @ + 1]
    /\ encode_calls' = encode_calls
            + Cardinality(EncodedPairs(matcher, <<call.markets_a[pc[w]]>>,
                                       call.markets_b))
    /\ warnings' = warnings
            + Cardinality(WarnedPairs(matcher, <<call.markets_a[pc[w]]>>,
                                      call.markets_b, call.encode))
    /\ UNCHANGED <<cache, calculator, matcher, call, calls>>

NextSplit == \E w \in {1, 2} : Work(w)

SpecSplit == InitSplit /\ [][NextSplit]_vars

----------------------------------------------------------------------------
(* Claims about ArbitrageCalculator.calculate, checked under SpecCalc.     *)
(* The formulas read the arguments from call and the result from ret, and  *)
(* restate the arithmetic on the arguments themselves.                     *)

CalcDone == pc = "done" /\ call.fn = "calculate"

ArgA == call.market_a

ArgB == call.market_b

SumA == ArgA.yes_price + ArgA.no_price

SumB == ArgB.yes_price + ArgB.no_price

CostYesANoB == ArgA.yes_price + ArgB.no_price

CostNoAYesB == ArgA.no_price + ArgB.yes_price

BestCost == IF CostYesANoB <= CostNoAYesB THEN CostYesANoB ELSE CostNoAYesB

AllPricesPositive ==
    ArgA.yes_price > 0 /\ ArgA.no_price > 0 /\ ArgB.yes_price > 0 /\ ArgB.no_price > 0

SumsInBand == SumA >= 950 /\ SumA <= 1050 /\ SumB >= 950 /\ SumB <= 1050

\* liquidity as the specification states the gate: unset, or at least the minimum
LiquidityAcceptable(m) ==
    m.liquidity = None \/ Get(m.liquidity) >= calculator.min_liquidity

LiquidityBelowMin(m) ==
    m.liquidity # None /\ Get(m.liquidity) < calculator.min_liquidity

BestProfitReachesMin == (1000 - BestCost) * 100 >= calculator.min_profit_pct

\* C1: calculate returns none whenever either market has a liquidity that is
\* present and strictly below min_liquidity, for every such value including 0.
C1_LowLiquidityRejected ==
    (CalcDone /\ (LiquidityBelowMin(ArgA) \/ LiquidityBelowMin(ArgB))) => ret = None

\* C2: calculate returns none for every pair in which the yes+no sum of market
\* A or of market B is below 0.95 or above 1.05; a sum of exactly 0.95 or 1.05
\* is not rejected by this gate: such a pair that passes the other gates and
\* reaches the minimum profit is returned.
C2_SumBandGate ==
    CalcDone =>
        /\ (SumA < 950 \/ SumA > 1050 \/ SumB < 950 \/ SumB > 1050) => ret = None
        /\ ( /\ SumA \in {950, 1050} \/ SumB \in {950, 1050}
             /\ SumsInBand
             /\ AllPricesPositive
             /\ LiquidityAcceptable(ArgA) /\ LiquidityAcceptable(ArgB)
             /\ BestProfitReachesMin ) => ret # None

\* C2 witness: a pair rejected by the band alone (positive prices, acceptable
\* liquidity, a hedge that reaches the minimum profit, sum of A = 0.94).
C2_Witness ==
    /\ CalcDone
    /\ AllPricesPositive
    /\ SumA < 950 /\ SumB >= 950 /\ SumB <= 1050
    /\ LiquidityAcceptable(ArgA) /\ LiquidityAcceptable(ArgB)
    /\ BestProfitReachesMin
    /\ ret = None

\* C3: calculate returns none (and is defined: it does not raise) whenever any
\* of the four prices is zero or negative.
C3_NonPositivePriceRejected ==
    (CalcDone /\ ~AllPricesPositive) => ret = None

\* C3 witness: a zero price on a pair that passes every other gate and whose
\* hedge reaches the minimum profit.
C3_Witness ==
    /\ CalcDone
    /\ ArgA.yes_price = 0
    /\ SumsInBand
    /\ LiquidityAcceptable(ArgA) /\ LiquidityAcceptable(ArgB)
    /\ BestProfitReachesMin
    /\ ret = None

\* C4: when all validation gates pass, calculate returns a result if and only
\* if the larger of the two scenario profit percentages is >= min_profit_pct
\* (inclusive); every result returned has profit_pct >= min_profit_pct.
C4_MinProfitInclusive ==
    CalcDone =>
        /\ ( /\ AllPricesPositive
             /\ SumsInBand
             /\ LiquidityAcceptable(ArgA) /\ LiquidityAcceptable(ArgB) )
           => (ret # None <=> BestProfitReachesMin)
        /\ ret # None => Get(ret).profit_pct >= calculator.min_profit_pct

\* C4 witness: a result whose profit percentage equals the minimum.
C4_Witness ==
    /\ CalcDone
    /\ ret # None
    /\ Get(ret).profit_pct = calculator.min_profit_pct

\* C5: the returned strategy is no_a_yes_b exactly when no(A)+yes(B) is
\* strictly below yes(A)+no(B); on equal costs it is yes_a_no_b.
C5_StrictlyBetterScenario ==
    (CalcDone /\ ret # None) =>
        /\ Get(ret).strategy \in {"yes_a_no_b", "no_a_yes_b"}
        /\ Get(ret).strategy = "no_a_yes_b" <=> CostNoAYesB < CostYesANoB
        /\ CostNoAYesB = CostYesANoB => Get(ret).strategy = "yes_a_no_b"

\* C5 witness: a result returned for two scenarios of equal cost.
C5_Witness ==
    /\ CalcDone
    /\ ret # None
    /\ CostNoAYesB = CostYesANoB
    /\ Get(ret).strategy = "yes_a_no_b"

\* C6: every result is internally consistent: cost is yes(A)+no(B) for
\* yes_a_no_b and no(A)+yes(B) for no_a_yes_b, profit_pct is (1 - cost) * 100,
\* market_a and market_b are the input markets and match_confidence is the
\* argument.
C6_ResultConsistent ==
    (CalcDone /\ ret # None) =>
        LET r == Get(ret)
        IN  /\ r.strategy = "yes_a_no_b" => r.cost = CostYesANoB
            /\ r.strategy = "no_a_yes_b" => r.cost = CostNoAYesB
            /\ r.strategy \in {"yes_a_no_b", "no_a_yes_b"}
            /\ r.profit_pct = (1000 - r.cost) * 100
            /\ r.market_a = ArgA
            /\ r.market_b = ArgB
            /\ r.match_confidence = call.match_confidence

\* C6 witness: a no_a_yes_b result for a match confidence below 1.0.
C6_Witness ==
    /\ CalcDone
    /\ ret # None
    /\ Get(ret).strategy = "no_a_yes_b"
    /\ call.match_confidence = <<4, 5>>
    /\ ArgA # ArgB

\* the part of a calculate outcome that does not name the liquidity
Outcome(r) ==
    IF r = None THEN None
    ELSE Some(<<Get(r).profit_pct, Get(r).strategy, Get(r).cost,
                Get(r).match_confidence>>)

\* C7: a market whose liquidity is unset is never rejected by the liquidity
\* gate: the call gives the same outcome as the call with that market's
\* liquidity set to any value >= min_liquidity, and a pair with unset
\* liquidity that passes the price gates and reaches the minimum profit is
\* returned.
C7_UnsetLiquidityPasses ==
    CalcDone =>
        /\ ArgA.liquidity = None =>
             \A v \in {calculator.min_liquidity, calculator.min_liquidity + 1, 1000} :
                Outcome(ret) =
                  Outcome(calculate(calculator, [ArgA EXCEPT !.liquidity = Some(v)],
                                    ArgB, call.match_confidence))
        /\ ArgB.liquidity = None =>
             \A v \in {calculator.min_liquidity, calculator.min_liquidity + 1, 1000} :
                Outcome(ret) =
                  Outcome(calculate(calculator, ArgA, [ArgB EXCEPT !.liquidity = Some(v)],
                                    call.match_confidence))
        /\ ( /\ ArgA.liquidity = None /\ ArgB.liquidity = None
             /\ AllPricesPositive /\ SumsInBand /\ BestProfitReachesMin )
           => ret # None

\* C7 witness: a result returned for two markets of unset liquidity.
C7_Witness ==
    /\ CalcDone
    /\ ArgA.liquidity = None /\ ArgB.liquidity = None
    /\ ret # None

----------------------------------------------------------------------------
(* Claims about SemanticMatcher.match_markets, stated on the arguments and *)
(* the result of the call under SpecMatch.                                 *)

MatchDone == pc = "done" /\ call.fn = "match_markets"

ListA == call.markets_a

ListB == call.markets_b

Elements(list) == {list[i] : i \in DOMAIN list}

\* x < y for two fractions with positive denominators
ConfBelow(x, y) == x[1] * y[2] < y[1] * x[2]

\* the positions of list that hold market m
Positions(list, m) == {i \in DOMAIN list : list[i] = m}

\* C8: match_markets returns at most one MatchResult per element of A (so at
\* most |A| results), each result's market_a is an element of A and its
\* market_b an element of B, and no result has confidence below min_confidence.
C8_AtMostOnePerMarketAboveMin ==
    MatchDone =>
        /\ Len(ret) <= Len(ListA)
        /\ \A k \in DOMAIN ret :
              /\ ret[k].market_a \in Elements(ListA)
              /\ ret[k].market_b \in Elements(ListB)
              /\ ~ConfBelow(ret[k].confidence, matcher.min_confidence)
              /\ Cardinality({n \in DOMAIN ret : ret[n].market_a = ret[k].market_a})
                    <= Cardinality(Positions(ListA, ret[k].market_a))

\* the pairing of A[i] with B[j] as _calculate_match reports it
Pairing(i, j) ==
    _calculate_match(matcher, ListA[i], ListB[j],
                     call.encode[ListA[i].market_id, ListB[j].market_id])

NonVetoed(i) == {j \in DOMAIN ListB : Pairing(i, j) # None}

PairConfidence(i, j) == Get(Pairing(i, j)).confidence

\* a call with two markets in A of which one is matched and the other has a
\* pairing, but only below a positive min_confidence
C8_Witness ==
    /\ MatchDone
    /\ Len(ListA) = 2
    /\ Len(ret) = 1
    /\ matcher.min_confidence[1] > 0
    /\ \E i \in DOMAIN ListA :
          /\ ListA[i] # ret[1].market_a
          /\ NonVetoed(i) # {}
          /\ \A j \in NonVetoed(i) :
                ConfBelow(PairConfidence(i, j), matcher.min_confidence)

\* C9: the results appear in the input order of A: the markets of A the
\* results belong to can be found in A at increasing positions, so the result
\* for A[i] precedes the result for A[j] whenever i < j.
C9_ResultsFollowOrderOfA ==
    MatchDone =>
        \E f \in [DOMAIN ret -> DOMAIN ListA] :
            /\ \A k \in DOMAIN ret : ret[k].market_a = ListA[f[k]]
            /\ \A k \in DOMAIN ret, n \in DOMAIN ret : k < n => f[k] < f[n]

\* two different markets of A are both matched
C9_Witness ==
    /\ MatchDone
    /\ Len(ret) = 2
    /\ ret[1].market_a # ret[2].market_a
    /\ ret[1].market_a = ListA[1]
    /\ ret[2].market_a = ListA[2]

\* the pairings of A[i] among the positions J of B that reach the highest
\* confidence found in J
Highest(i, J) ==
    {j \in J : \A k \in J : ~ConfBelow(PairConfidence(i, j), PairConfidence(i, k))}

EarliestHighest(i, J) ==
    CHOOSE j \in Highest(i, J) : \A k \in Highest(i, J) : j <= k

\* for each market of A its candidate among the pairings Among(i): None when
\* there is no such pairing, else the earliest one of highest confidence
Candidates(Among(_)) ==
    [i \in DOMAIN ListA |->
        IF Among(i) = {} THEN None
        ELSE Pairing(i, EarliestHighest(i, Among(i)))]

ReachesMin(candidate) ==
    /\ candidate # None
    /\ ~ConfBelow(Get(candidate).confidence, matcher.min_confidence)

\* the candidates whose confidence reaches min_confidence, in the order of A
Emitted(candidates) ==
    [k \in DOMAIN SelectSeq(candidates, ReachesMin) |->
        Get(SelectSeq(candidates, ReachesMin)[k])]

\* C10 as stated: for each market a of A the candidate considered for
\* emission is the non-vetoed pairing (a, b) of highest confidence over all b
\* in B, the earliest in B when several reach it; the candidate is emitted
\* when its confidence reaches min_confidence.
C10_HighestNonVetoedPairing ==
    MatchDone => ret = Emitted(Candidates(NonVetoed))

PositiveConfidence(i) == {j \in NonVetoed(i) : PairConfidence(i, j)[1] > 0}

\* C10 amended: for each market a of A the candidate considered for emission
\* is the non-vetoed pairing (a, b) of highest confidence among those whose
\* confidence is greater than 0, the earliest in B when several reach it;
\* when no pairing has a confidence greater than 0 there is no candidate.
C10_HighestPositivePairing ==
    MatchDone => ret = Emitted(Candidates(PositiveConfidence))

\* two different markets of B reach the highest confidence for a market of A
\* and the result for that market carries the earlier of the two
C10_Witness ==
    /\ MatchDone
    /\ \E i \in DOMAIN ListA, j \in DOMAIN ListB, k \in DOMAIN ListB :
          /\ j < k
          /\ ListB[j] # ListB[k]
          /\ j \in Highest(i, PositiveConfidence(i))
          /\ k \in Highest(i, PositiveConfidence(i))
          /\ \E n \in DOMAIN ret :
                ret[n].market_a = ListA[i] /\ ret[n].market_b = ListB[j]

\* the results of matching each market of A on its own against the whole of
\* B, one after the other from position i of A
RECURSIVE MatchedSeparately(_)
MatchedSeparately(i) ==
    IF i > Len(ListA) THEN << >>
    ELSE match_markets(matcher, <<ListA[i]>>, ListB, call.encode)
            \o MatchedSeparately(i + 1)

\* C11: match_markets imposes no one-to-one exclusivity: the choice made for
\* one element of A does not depend on what was chosen for the other elements
\* of A, so the call returns what matching each element of A on its own
\* against the whole of B returns (and a market of B may then appear as
\* market_b in several results).
C11_NoExclusivity ==
    MatchDone => ret = MatchedSeparately(1)

\* two results for different markets of A carry the same market of B
C11_Witness ==
    /\ MatchDone
    /\ Len(ret) = 2
    /\ ret[1].market_a # ret[2].market_a
    /\ ret[1].market_b = ret[2].market_b

----------------------------------------------------------------------------
(* Claims about SemanticMatcher._calculate_match, stated on the arguments  *)
(* and the result of the call under SpecPair.  The formulas normalize the  *)
(* two questions and read their dates themselves.                          *)

PairDone == pc = "done" /\ call.fn = "_calculate_match"

QuestionA == call.market_a.question

QuestionB == call.market_b.question

NormalizedOf == [q \in PairQuestions |-> normalize(q)]

DateContextOf == [q \in PairQuestions |-> extract_date_context(q)]

FuzzyOf ==
    [qa \in PairQuestions, qb \in PairQuestions |->
        token_sort_ratio(NormalizedOf[qa], NormalizedOf[qb])]

IdenticalOnceNormalized == NormalizedOf[QuestionA] = NormalizedOf[QuestionB]

BothHaveDate ==
    DateContextOf[QuestionA].has_date /\ DateContextOf[QuestionB].has_date

YearSet(q) == Elements(DateContextOf[q].years)

PairFuzzy == FuzzyOf[QuestionA, QuestionB]

\* x = y for two fractions with positive denominators
SameNumber(x, y) == x[1] * y[2] = y[1] * x[2]

\* C12: whenever the normalized questions of the two markets are identical,
\* _calculate_match returns a MatchResult with confidence 1.0, fuzzy_score
\* 100.0 and semantic_score 0.0, whatever the platforms and whether or not
\* semantic scoring is enabled, and the embedding provider is not invoked.
C12_ExactMatchShortCircuit ==
    (PairDone /\ IdenticalOnceNormalized) =>
        /\ ret # None
        /\ Get(ret).market_a = call.market_a
        /\ Get(ret).market_b = call.market_b
        /\ Get(ret).confidence = <<1, 1>>
        /\ Get(ret).fuzzy_score = <<100, 1>>
        /\ Get(ret).semantic_score = <<0, 1>>
        /\ encode_calls = 0

\* two different questions on different platforms that normalize to the same
\* string, given to a matcher with semantic scoring on and a working provider
C12_Witness ==
    /\ PairDone
    /\ IdenticalOnceNormalized
    /\ QuestionA # QuestionB
    /\ call.market_a.platform # call.market_b.platform
    /\ matcher.use_semantic
    /\ call.cosine = Some(<<1, 2>>)
    /\ ret # None

\* C13: when both original questions have a detected date and their sets of
\* detected years differ, _calculate_match returns none, however similar the
\* two texts are.
C13_DateVeto ==
    (PairDone /\ BothHaveDate /\ YearSet(QuestionA) # YearSet(QuestionB)) =>
        ret = None

\* a pair of fuzzy score above 90 with different years, and an embedding
\* step that would report a cosine of 1, is vetoed
C13_Witness ==
    /\ PairDone
    /\ BothHaveDate
    /\ YearSet(QuestionA) # YearSet(QuestionB)
    /\ ConfBelow(<<90, 1>>, PairFuzzy)
    /\ matcher.use_semantic
    /\ call.cosine = Some(<<1, 1>>)
    /\ ret = None

\* C14: the date veto is the only cause of a none result: _calculate_match
\* returns a MatchResult whenever at least one of the two questions has no
\* detected date, or both mention the same set of years, in whatever order
\* and however often the years appear in the text.
C14_OnlyDifferentYearSetsVeto ==
    (PairDone /\ (~BothHaveDate \/ YearSet(QuestionA) = YearSet(QuestionB))) =>
        ret # None

SemanticAttempted == matcher.use_semantic /\ matcher.embedder # None

\* (fuzzy_score * 0.4 + cosine * 100 * 0.6) / 100 as a fraction
BlendOf(f, c) == <<4 * f[1] * c[2] + 600 * c[1] * f[2], 1000 * f[2] * c[2]>>

\* fuzzy_score / 100 as a fraction
FuzzyOnlyOf(f) == <<f[1], 100 * f[2]>>

ScoredPair == PairDone /\ ret # None /\ ~IdenticalOnceNormalized

C16_ConfidenceInUnitInterval ==
    (PairDone /\ ret # None) =>
        /\ Get(ret).confidence[2] > 0
        /\ Get(ret).confidence[1] >= 0
        /\ Get(ret).confidence[1] <= Get(ret).confidence[2]

\* a pair of fuzzy score 0 is scored while the embedding step reports a
\* cosine of -1
C16_Witness ==
    /\ ScoredPair
    /\ SemanticAttempted
    /\ call.cosine = Some(<<-1, 1>>)
    /\ PairFuzzy = <<0, 1>>
    /\ encode_calls = 1

SemanticSignalUsed ==
    /\ ~IdenticalOnceNormalized
    /\ SemanticAttempted
    /\ call.cosine # None
    /\ Get(call.cosine)[1] > 0

\* C17: every MatchResult that _calculate_match produces has its
\* semantic_score in [0, 100], and the semantic_score is 0 whenever the
\* semantic signal was not used in the confidence, a negative cosine included.
C17_SemanticScoreInRange ==
    (PairDone /\ ret # None) =>
        /\ Get(ret).semantic_score[1] >= 0
        /\ Get(ret).semantic_score[1] <= 100 * Get(ret).semantic_score[2]
        /\ ~SemanticSignalUsed => Get(ret).semantic_score[1] = 0

----------------------------------------------------------------------------
(* Claims about the lifetime of a SemanticMatcher, checked under SpecLife. *)

\* the embedding step is run for the pair of the _calculate_match call under
\* way, and raises
EmbeddingFails ==
    /\ call.fn = "_calculate_match"
    /\ SemanticAttempted
    /\ call.cosine = None
    /\ ~IdenticalOnceNormalized
    /\ ~(BothHaveDate /\ DateContextOf[QuestionA].years # DateContextOf[QuestionB].years)

\* cosine * 100 as a fraction
TimesHundred(c) == <<100 * c[1], c[2]>>

\* a result is scored with the cosine the embedding step yields for its own
\* pair, whenever that cosine is positive and the matcher scores semantically
ScoredWithOwnCosine(result, cosine) ==
    (/\ SemanticAttempted
     /\ NormalizedOf[result.market_a.question] # NormalizedOf[result.market_b.question]
     /\ cosine # None
     /\ Get(cosine)[1] > 0) =>
        SameNumber(result.semantic_score, TimesHundred(Get(cosine)))

\* C18: when the embedding step fails while one pair is scored,
\* _calculate_match still returns a MatchResult, with semantic_score 0 and
\* confidence fuzzy_score/100, and the matcher is left as it was (the failure
\* is logged); the pairs scored later, in the same match_markets call or in a
\* later call, are scored semantically.
C18_EmbeddingFailureContained ==
    /\ [][(pc = "ready" /\ pc' = "done" /\ EmbeddingFails) =>
             /\ ret' # None
             /\ Get(ret').semantic_score = <<0, 1>>
             /\ SameNumber(Get(ret').confidence, FuzzyOnlyOf(PairFuzzy))
             /\ warnings' = warnings + 1
             /\ matcher' = matcher]_vars
    /\ [](PairDone /\ ret # None => ScoredWithOwnCosine(Get(ret), call.cosine))
    /\ [](MatchDone =>
            \A k \in DOMAIN ret :
                ScoredWithOwnCosine(ret[k],
                    call.encode[ret[k].market_a.market_id,
                                ret[k].market_b.market_id]))

\* the second call of a matcher whose first call met a failure: a
\* match_markets call in which the embedding step fails for the first market
\* of B and the result, for the second market of B, has semantic_score 50
C18_Witness ==
    /\ MatchDone
    /\ calls = 2
    /\ warnings = 2
    /\ Len(ListA) = 1
    /\ Len(ListB) = 2
    /\ call.encode[ListA[1].market_id, ListB[1].market_id] = None
    /\ call.encode[ListA[1].market_id, ListB[2].market_id] = Some(<<1, 2>>)
    /\ Len(ret) = 1
    /\ ret[1].market_b = ListB[2]
    /\ ret[1].semantic_score = <<50, 1>>

\* no embedding provider: use_semantic was false or the provider failed to
\* initialize
NoProvider == matcher.embedder = None

\* semantic_score 0, and confidence fuzzy_score/100, or 1.0 for an exact match
FuzzyOnlyResult(result) ==
    /\ result.semantic_score = <<0, 1>>
    /\ IF NormalizedOf[result.market_a.question]
            = NormalizedOf[result.market_b.question]
       THEN result.confidence = <<1, 1>>
       ELSE SameNumber(result.confidence,
                FuzzyOnlyOf(FuzzyOf[result.market_a.question,
                                    result.market_b.question]))

\* C19: a matcher constructed without a working embedding provider
\* (use_semantic false, or the provider failed to initialize) is fuzzy-only
\* for its whole lifetime: whatever calls it serves, it is never
\* semantic-enabled, the provider is never invoked, and every result has
\* semantic_score 0 and confidence fuzzy_score/100 (1.0 for an exact match).
C19_FuzzyOnlyForLife ==
    /\ [][NoProvider => matcher' = matcher]_vars
    /\ [](NoProvider =>
            /\ ~matcher.use_semantic
            /\ encode_calls = 0
            /\ warnings = 0
            /\ (PairDone /\ ret # None) => FuzzyOnlyResult(Get(ret))
            /\ MatchDone => \A k \in DOMAIN ret : FuzzyOnlyResult(ret[k]))

\* the second call of a matcher without provider scores a pair for which the
\* embedding step would have reported a cosine of 1
C19_Witness ==
    /\ PairDone
    /\ NoProvider
    /\ calls = 2
    /\ call.cosine = Some(<<1, 1>>)
    /\ ~IdenticalOnceNormalized
    /\ ret # None
    /\ SameNumber(Get(ret).confidence, FuzzyOnlyOf(PairFuzzy))

----------------------------------------------------------------------------
(* Claims about TextNormalizer.normalize, checked under SpecNorm.          *)

\* C20: normalize is idempotent: when the text handed to normalize is itself
\* a result of normalize, normalize returns it unchanged
\* (normalize(normalize(x)) = normalize(x)).
C20_NormalizeIdempotent ==
    [][(pc = "ready" /\ call.fn = "normalize" /\ call.renormalized /\ pc' = "done")
          => Get(ret') = call.text]_vars

NormDone == pc = "done" /\ call.fn = "normalize"

\* the canonical name the alias table gives the text, when the text is one
\* of its variants
CanonicalOf(text) ==
    {reverse_map[k][2] : k \in {j \in 1..Len(reverse_map) : reverse_map[j][1] = text}}

\* C21: normalize maps every variant of the alias table to its canonical
\* name: normalize(variant) = canonical for each entry, the variants with
\* periods and the variants that extend another variant included.
C21_VariantsBecomeCanonical ==
    (NormDone /\ ~call.renormalized) =>
        \A canonical \in CanonicalOf(call.text) : Get(ret) = canonical

\* the whitespace-separated tokens of a text
TokensOf(text) == {split(text)[k] : k \in 1..Len(split(text))}

\* single spaces between tokens, none at either end
SingleSpaced(text) ==
    /\ text = "" \/ (Char(text, 1) # " " /\ Char(text, Len(text)) # " ")
    /\ \A i \in 1..(Len(text) - 1) : ~(Char(text, i) = " " /\ Char(text, i + 1) = " ")

ShortStopwords == {w \in stopwords : Len(w) <= 3}

LongStopwords == {"with", "will", "were", "been", "being"}

\* C22: in the output of normalize no token is a stopword of three characters
\* or fewer, while the stopwords longer than three characters (with, will,
\* were, been, being) are kept; the tokens are separated by exactly one space
\* with no leading or trailing whitespace, and normalize("") = "".
C22_StopwordsAndSpacing ==
    NormDone =>
        /\ TokensOf(Get(ret)) \cap ShortStopwords = {}
        /\ \A w \in LongStopwords :
               w \in TokensOf(lower(call.text)) => w \in TokensOf(Get(ret))
        /\ SingleSpaced(Get(ret))
        /\ call.text = "" => Get(ret) = ""

\* a text of stopwords only: the short ones are dropped, the long ones kept
C22_Witness ==
    /\ NormDone
    /\ call.text = "the a with will were been being is"
    /\ Get(ret) = "with will were been being"

----------------------------------------------------------------------------
(* Claims about TextNormalizer.extract_date_context, checked under         *)
(* SpecDate.                                                               *)

DateDone == pc = "done" /\ call.fn = "extract_date_context"

\* the texts whose only date tokens are quarters
QuarterOnlyTexts ==
    {p \o t \o x : p \in {"", "cut by ", "Fed in "},
                    t \in {"Q1", "first quarter"}, x \in {"", "?", " q4"}}
    \cup {p \o t \o " q4" : p \in {"", "cut by ", "Fed in "},
                             t \in {"", "maybe", "q5"}}

\* C23: has_date is true if and only if at least one year or at least one
\* month was found in the text; a text with quarter tokens only yields a
\* non-empty quarters list and has_date false.
C23_HasDateIffYearOrMonth ==
    DateDone =>
        /\ Get(ret).has_date <=> (Get(ret).years # << >> \/ Get(ret).months # << >>)
        /\ call.text \in QuarterOnlyTexts =>
               (Get(ret).quarters # << >> /\ ~Get(ret).has_date)

\* a text with two quarters and neither year nor month
C23_Witness ==
    /\ DateDone
    /\ call.text = "cut by Q1 q4"
    /\ Get(ret).quarters = <<"q1", "q4">>
    /\ Get(ret).years = << >>
    /\ Get(ret).months = << >>
    /\ ~Get(ret).has_date

----------------------------------------------------------------------------
(* Claims about the end-to-end scenario, checked under SpecScenario.       *)

\* the two markets are priced as in the scenario
ScenarioPrices ==
    /\ ArgA.yes_price = 495 /\ ArgA.no_price = 505
    /\ ArgB.yes_price = 490 /\ ArgB.no_price = 510

\* a returned result carries the best scenario's profit_pct
BestProfitBetween(low, high) ==
    ret # None => (Get(ret).profit_pct >= low /\ Get(ret).profit_pct <= high)

\* none under the default 2.0% minimum and under a 1.0% minimum
NoneUnderOneAndTwoPercent ==
    calculator.min_profit_pct \in {1000, 2000} => ret = None

\* C27 as stated: the best scenario's profit_pct is about 1.0% (between 0.9%
\* and 1.1%), and calculate returns none under the minimums 2.0% and 1.0%.
C27_ProfitAboutOnePercent ==
    (CalcDone /\ ScenarioPrices) =>
        /\ BestProfitBetween(900, 1100)
        /\ NoneUnderOneAndTwoPercent

\* C27: for A(yes=0.495, no=0.505) and B(yes=0.49, no=0.51) with sufficient
\* liquidity the best scenario is no_a_yes_b at cost 0.995, its profit_pct is
\* 0.5%: calculate returns none under the minimums 2.0% and 1.0%, and returns
\* that result under a minimum of 0.5% or less.
C27_ProfitHalfPercent ==
    (CalcDone /\ ScenarioPrices) =>
        /\ NoneUnderOneAndTwoPercent
        /\ calculator.min_profit_pct <= 500 =>
               /\ ret # None
               /\ Get(ret).profit_pct = 500
               /\ Get(ret).cost = 995
               /\ Get(ret).strategy = "no_a_yes_b"

\* the scenario under a minimum of exactly 0.5%
C27_Witness ==
    /\ CalcDone
    /\ ScenarioPrices
    /\ calculator.min_profit_pct = 500
    /\ ret # None
    /\ Get(ret).profit_pct = 500

----------------------------------------------------------------------------
(* A further claim about match_markets, checked under SpecLife, whose      *)
(* matchers include a negative min_confidence.                             *)

\* C30: match_markets never emits a candidate whose confidence is 0 or less,
\* even when min_confidence is 0 or negative: every returned MatchResult has
\* a confidence greater than 0.
C30_EmittedConfidencePositive ==
    MatchDone => \A k \in DOMAIN ret : ret[k].confidence[1] > 0

\* a matcher with a negative min_confidence and a market of A whose only
\* pairing is not vetoed and has confidence 0: nothing is returned
C30_Witness ==
    /\ MatchDone
    /\ matcher.min_confidence[1] < 0
    /\ Len(ListA) = 1
    /\ Len(ListB) = 1
    /\ Pairing(1, 1) # None
    /\ PairConfidence(1, 1) = <<0, 1>>
    /\ ret = << >>

----------------------------------------------------------------------------
(* Claims about KalshiClient.get_markets_by_category, checked under        *)
(* SpecKalshi.                                                             *)

KalshiDone == pc = "done" /\ call.fn = "get_markets_by_category"

\* C28: get_markets_by_category(category, limit) returns at most limit
\* markets, for any number of relevant series and of markets per series.
C28_AtMostLimitMarkets == KalshiDone => Len(ret) <= call.limit

----------------------------------------------------------------------------
(* Claims about KnowledgeBase.update_embeddings, checked under             *)
(* SpecKnowledge.                                                          *)

\* the cache file is valid and holds an embedding stored for the question of
\* every market of the call
EmbeddingsStored ==
    /\ call.markets # << >>
    /\ load_data(cache, "embeddings_cache.json") # None
    /\ \A i \in DOMAIN call.markets :
          call.markets[i].question \in DOMAIN cache["embeddings_cache.json"]

\* C29: once a call has stored the embeddings of a list of markets, a second
\* update_embeddings call with the same markets, the cache still valid,
\* requests no new embeddings and leaves the cache unchanged.
C29_NoEmbeddingRequestedTwice ==
    [][(/\ pc = "ready"
        /\ call.fn = "update_embeddings"
        /\ pc' = "done"
        /\ EmbeddingsStored) =>
           (encode_calls' = encode_calls /\ cache' = cache)]_vars

----------------------------------------------------------------------------
(* Claims about the detection pipeline, checked under SpecDetect.          *)

DetectDone == pc = "done" /\ call.fn = "detect_opportunities"

\* the matches of the two lists of the call
DetectMatches ==
    match_markets(matcher, call.polymarket_markets, call.kalshi_markets,
                  call.encode)

\* what calculate returns for match k
DetectResult(k) ==
    calculate(calculator, DetectMatches[k].market_a, DetectMatches[k].market_b,
              DetectMatches[k].confidence)

\* how many times x occurs in a list
Occurrences(x, list) == Cardinality({k \in DOMAIN list : list[k] = x})

\* C24: the list of opportunities handed to presentation contains exactly
\* the non-none calculate results of the matches (each as many times as it
\* is computed) and is ordered by non-increasing profit_pct.
C24_ExactlyTheResultsSorted ==
    DetectDone =>
        /\ \A k \in DOMAIN DetectMatches :
              DetectResult(k) # None =>
                  Occurrences(Get(DetectResult(k)), ret)
                      = Cardinality({j \in DOMAIN DetectMatches :
                                        DetectResult(j) = DetectResult(k)})
        /\ \A n \in DOMAIN ret :
              \E k \in DOMAIN DetectMatches : DetectResult(k) = Some(ret[n])
        /\ \A n \in 1..(Len(ret) - 1) : ret[n].profit_pct >= ret[n + 1].profit_pct

\* two matches, the first with a profit of 2% and the second with a profit
\* of 10%: the opportunities are the second, then the first
C24_Witness ==
    /\ DetectDone
    /\ Len(DetectMatches) = 2
    /\ DetectResult(1) # None
    /\ DetectResult(2) # None
    /\ Get(DetectResult(1)).profit_pct = 2000
    /\ Get(DetectResult(2)).profit_pct = 10000
    /\ ret = <<Get(DetectResult(2)), Get(DetectResult(1))>>

----------------------------------------------------------------------------
(* A claim about what the calls leave alone, checked under SpecLife, whose *)
(* behaviours are sequences of match_markets, _calculate_match, calculate  *)
(* and get_strategy_description calls.                                     *)

\* C25: the core never mutates its inputs: no step changes the thresholds of
\* the calculator (min_profit_pct, min_liquidity) or the min_confidence of
\* the matcher, and a call that runs leaves its arguments (every field of
\* every Market passed in, the lists A and B) as they were passed.
C25_InputsNotMutated ==
    [][/\ calculator' = calculator
       /\ matcher'.min_confidence = matcher.min_confidence
       /\ pc = "ready" => call' = call]_vars

\* after a call of the matcher, get_strategy_description has described a
\* result of strategy no_a_yes_b
C25_Witness ==
    /\ pc = "done"
    /\ call.fn = "get_strategy_description"
    /\ calls = 1
    /\ call.result.market_a.no_price = 550
    /\ ret.action_a = "Buy No on polymarket (0.550)"
    /\ ret.action_b = "Buy Yes on kalshi (0.400)"

----------------------------------------------------------------------------
(* A claim about splitting the outer loop of match_markets, checked under  *)
(* SpecSplit.                                                              *)

\* both workers have gone through their part of A
WorkersDone ==
    pc[1] > call.split /\ pc[2] > Len(call.markets_a)

FirstPart == SubSeq(call.markets_a, 1, call.split)

SecondPart == SubSeq(call.markets_a, call.split + 1, Len(call.markets_a))

\* C26: the outer loop can be split across workers without changing the
\* output: for A split into A1 followed by A2, and under every interleaving
\* of two workers that write to their own slots, the slots end up as
\* match_markets(A1, B) and match_markets(A2, B), and one after the other
\* they are match_markets(A1 ++ A2, B).
C26_SplitPreservesOutput ==
    WorkersDone =>
        /\ ret[1] = match_markets(matcher, FirstPart, call.markets_b, call.encode)
        /\ ret[2] = match_markets(matcher, SecondPart, call.markets_b, call.encode)
        /\ ret[1] \o ret[2]
             = match_markets(matcher, call.markets_a, call.markets_b, call.encode)

\* two markets of A, one for each worker, and both are matched
C26_Witness ==
    /\ WorkersDone
    /\ Len(call.markets_a) = 2
    /\ call.split = 1
    /\ Len(ret[1]) = 1
    /\ Len(ret[2]) = 1
    /\ ret[1] # ret[2]

====
